---- MODULE Spec2Model ----
(***************************************************************************)
(* A model of train/sex_det/sd01a.py: file discovery, data assembly, the   *)
(* residual network's shape algebra, the fit loop with its two callbacks   *)
(* and the script's entry point.                                           *)
(*                                                                         *)
(* Paths and names are sequences of one-character strings, so that         *)
(* str.endswith and os.path.join are computed on characters.  A file       *)
(* system is a function from the paths that exist to their kind.           *)
(***************************************************************************)
EXTENDS Integers, Sequences, FiniteSets, TLC

VARIABLES
    fs,                 \* the file system: path -> kind
    pc,                 \* the position of the program
    files,              \* the result of list(get_data_files(root))
    X_train, y_train,   \* the training volumes and labels
    X_val, y_val,       \* the validation volumes and labels
    train_generator, val_generator,
    samples_per_epoch, nb_val_samples,
    steps,              \* the entry point's steps performed so far
    ip, x, graph,       \* define_model: next statement, current tensor, layers
    logit, prediction,  \* the output unit's input and output for one volume
    epoch,              \* fit_generator: the number of epochs completed
    checkpointer_best,  \* ModelCheckpoint.best
    early_best, early_wait,  \* EarlyStopping.best and .wait
    stop_training,      \* model.stop_training
    weights_file,       \* what the file at weights_filepath holds
    lowest, stale       \* history: the lowest val_loss so far, epochs since

\* Number of directory entries the environment creates below the roots.
MaxEntries == 3
\* Numbers of volume files the environment creates for the entry point.
MaxTrainVolumes == 16
MaxValVolumes == 1

----------------------------------------------------------------------------
(* Strings *)

NpySuffix == <<".", "n", "p", "y">>

\* str.endswith(suffix)
endswith(s, suffix) ==
    /\ Len(s) >= Len(suffix)
    /\ SubSeq(s, Len(s) - Len(suffix) + 1, Len(s)) = suffix

\* os.path.join(a, b) for a relative b: one separator unless a ends with one
path_join(a, b) ==
    IF a = <<>> \/ a[Len(a)] = "/" THEN a \o b ELSE a \o <<"/">> \o b

----------------------------------------------------------------------------
(* The file system *)

\* "other": an entry that is neither a regular file nor a directory
Kinds == {"file", "dir", "other"}

Names == { <<"0">>, <<"1">>, <<"a", ".", "n", "p", "y">>, <<"n", "p", "y">> }

Digits == <<"0", "1", "2", "3", "4", "5", "6", "7", "8", "9">>

\* The name of the k-th volume file of a directory: v00.npy, v01.npy, ...
volume_name(k) ==
    <<"v", Digits[((k \div 10) % 10) + 1], Digits[(k % 10) + 1]>> \o NpySuffix

\* The order in which os.scandir lists the entries of a directory.
NameOrder ==
    << <<"0">>, <<"1">>, <<"a", ".", "n", "p", "y">>, <<"n", "p", "y">> >>
    \o [k \in 1..(MaxTrainVolumes + MaxValVolumes) |-> volume_name(k)]

exists(f, p) == p \in DOMAIN f
is_file(f, p) == exists(f, p) /\ f[p] = "file"
is_dir(f, p) == exists(f, p) /\ f[p] = "dir"

Extend(f, p, k) == [q \in DOMAIN f \cup {p} |-> IF q = p THEN k ELSE f[q]]

RECURSIVE Concat(_)
Concat(ss) == IF ss = <<>> THEN <<>> ELSE Head(ss) \o Concat(Tail(ss))

\* os.scandir(root): the paths of root's entries
scandir(f, root) ==
    LET present(n) == exists(f, path_join(root, n))
        names == SelectSeq(NameOrder, present)
    IN  [i \in 1..Len(names) |-> path_join(root, names[i])]

----------------------------------------------------------------------------
(* get_data_files *)

\* get_data_files without the is_file() test of line 16
RECURSIVE get_data_files_any_entry(_, _)
get_data_files_any_entry(f, root) ==
    LET items == scandir(f, root)
    IN  Concat([i \in 1..Len(items) |->
            IF endswith(items[i], NpySuffix)
            THEN <<items[i]>>
            ELSE IF is_dir(f, items[i])
                 THEN get_data_files_any_entry(f, items[i])
                 ELSE <<>>])

RECURSIVE get_data_files(_, _)
get_data_files(f, root) ==
    LET items == scandir(f, root)
    IN  Concat([i \in 1..Len(items) |->
            IF is_file(f, items[i]) /\ endswith(items[i], NpySuffix)
            THEN <<items[i]>>
            ELSE IF is_dir(f, items[i])
                 THEN get_data_files(f, items[i])
                 ELSE <<>>])

\* os.scandir raises on a root that is missing or is no directory
scandir_raises(f, root) == ~is_dir(f, root)

\* list(get_data_files(root)): the paths, or the OSError of the first scandir
list_data_files(f, root) ==
    IF scandir_raises(f, root)
    THEN [raised |-> TRUE, paths |-> <<>>]
    ELSE [raised |-> FALSE, paths |-> get_data_files(f, root)]

dataVars == <<X_train, y_train, X_val, y_val, train_generator, val_generator,
              samples_per_epoch, nb_val_samples>>

NoGenerator == [X |-> <<>>, y |-> <<>>, batch_size |-> 0]

InitDataVars ==
    /\ X_train = <<>> /\ y_train = <<>>
    /\ X_val = <<>> /\ y_val = <<>>
    /\ train_generator = NoGenerator /\ val_generator = NoGenerator
    /\ samples_per_epoch = 0 /\ nb_val_samples = 0

NoFs == [p \in {} |-> "dir"]
NoResult == [raised |-> FALSE, paths |-> <<>>]

modelVars == <<ip, x, graph, logit, prediction>>

InitModelVars ==
    /\ ip = 0 /\ x = <<>> /\ graph = <<>>
    /\ logit = 0 /\ prediction = <<>>

trainVars == <<epoch, checkpointer_best, early_best, early_wait, stop_training,
               weights_file, lowest, stale>>

\* Validation losses: numbers, NaN, and the np.Inf the callbacks start from
Num(v) == [kind |-> "num", v |-> v]
NaN == [kind |-> "nan", v |-> 0]
Inf == [kind |-> "inf", v |-> 0]

NoWeights == [exists |-> FALSE, from |-> "none", epoch |-> 0]
PreviousRunWeights == [exists |-> TRUE, from |-> "previous_run", epoch |-> 0]
EpochWeights(e) == [exists |-> TRUE, from |-> "epoch", epoch |-> e]
NoLowest == [found |-> FALSE, loss |-> 0, epoch |-> 0]

InitTrainVars ==
    /\ epoch = 0
    /\ checkpointer_best = Inf
    /\ early_best = Inf /\ early_wait = 0
    /\ stop_training = FALSE
    /\ lowest = NoLowest /\ stale = 0

vars == <<fs, pc, files, dataVars, steps, modelVars, trainVars>>

----------------------------------------------------------------------------
(* The environment: entries appear below existing directories *)

Dirs(f) == {p \in DOMAIN f : f[p] = "dir"}

AddEntry(roots, names, kinds) ==
    /\ pc = "env"
    /\ UNCHANGED trainVars
    /\ Cardinality(DOMAIN fs \ roots) < MaxEntries
    /\ \E d \in Dirs(fs), n \in names, k \in kinds :
          /\ ~exists(fs, path_join(d, n))
          /\ fs' = Extend(fs, path_join(d, n), k)
    /\ UNCHANGED <<pc, files, steps>>
    /\ UNCHANGED dataVars
    /\ UNCHANGED modelVars

----------------------------------------------------------------------------
(* Specification of file discovery: get_data_files(RootF) on any tree *)

RootF == <<"r">>

InitFiles ==
    /\ fs \in {NoFs, Extend(NoFs, RootF, "dir"), Extend(NoFs, RootF, "file")}
    /\ pc = "env"
    /\ files = NoResult
    /\ InitDataVars
    /\ steps = <<>>
    /\ InitModelVars
    /\ InitTrainVars /\ weights_file = NoWeights

CallGetDataFiles ==
    /\ pc = "env"
    /\ UNCHANGED trainVars
    /\ files' = list_data_files(fs, RootF)
    /\ pc' = "listed"
    /\ UNCHANGED <<fs, steps>>
    /\ UNCHANGED dataVars
    /\ UNCHANGED modelVars

NextFiles == AddEntry({RootF}, Names, Kinds) \/ CallGetDataFiles
SpecFiles == InitFiles /\ [][NextFiles]_vars

\* p lies below directory d, at any depth
IsUnder(p, d) ==
    /\ Len(p) > Len(d) + 1
    /\ SubSeq(p, 1, Len(d) + 1) = d \o <<"/">>

\* The regular files below d whose path ends in .npy
VolumeFilesUnder(f, d) ==
    {p \in DOMAIN f : f[p] = "file" /\ IsUnder(p, d) /\ endswith(p, NpySuffix)}

Range(s) == {s[i] : i \in DOMAIN s}

\* C8: get_data_files(root) yields exactly the regular files below root, at
\* any depth, whose path ends in '.npy', each exactly once, no directory and
\* no other file; on a missing root it raises instead of yielding nothing.
C8_GetDataFilesExact ==
    pc = "listed" =>
        /\ ~exists(fs, RootF) => files.raised
        /\ is_dir(fs, RootF) =>
              /\ ~files.raised
              /\ Range(files.paths) = VolumeFilesUnder(fs, RootF)
              /\ Len(files.paths) = Cardinality(VolumeFilesUnder(fs, RootF))
              /\ \A i \in DOMAIN files.paths : ~is_dir(fs, files.paths[i])

\* A directory named a.npy holding a file a.npy, which is yielded from depth 2,
\* beside an entry that is skipped.
C8_Witness ==
    /\ pc = "listed"
    /\ ~files.raised
    /\ \E d \in Dirs(fs) :
          /\ endswith(d, NpySuffix)
          /\ \E i \in DOMAIN files.paths : IsUnder(files.paths[i], d)
    /\ Cardinality(DOMAIN fs) > Len(files.paths) + 2

----------------------------------------------------------------------------
(* create_data_generators *)

train_dir == <<"t", "r", "a", "i", "n">>
val_dir == <<"v", "a", "l">>
neg_dir(dir) == path_join(dir, <<"0">>)
pos_dir(dir) == path_join(dir, <<"1">>)

\* np.load(f): the volume stored in file f
np_load(f) == [volume_of |-> f]

\* hstack with the lengths exchanged
bool_labels_swapped(n_neg, n_pos) == [i \in 1..(n_neg + n_pos) |-> i > n_pos]

\* np.hstack((np.zeros(n_neg), np.ones(n_pos))).astype(np.bool)
bool_labels(n_neg, n_pos) == [i \in 1..(n_neg + n_pos) |-> i > n_neg]

\* Lines 35-42 (train) and 45-52 (val): the arrays of one split, or the
\* OSError of a missing label directory
load_split(f, dir) ==
    LET neg == list_data_files(f, neg_dir(dir))
        pos == list_data_files(f, pos_dir(dir))
        fl == neg.paths \o pos.paths
    IN  IF neg.raised \/ pos.raised
        THEN [raised |-> TRUE, X |-> <<>>, y |-> <<>>]
        ELSE [raised |-> FALSE,
              X |-> [i \in 1..Len(fl) |-> np_load(fl[i])],
              y |-> bool_labels(Len(neg.paths), Len(pos.paths))]

\* Arrays longer than this are shuffled by a sample of the permutations.
MaxPermLen == 4

Rotation(n) == [i \in 1..n |-> (i % n) + 1]
Reversal(n) == [i \in 1..n |-> n + 1 - i]
Identity(n) == [i \in 1..n |-> i]

\* The index permutations sklearn.utils.shuffle may draw for n samples
ShufflePerms(n) ==
    IF n <= MaxPermLen THEN Permutations(1..n)
    ELSE {Identity(n), Rotation(n), Reversal(n)}

\* a shuffle that permutes the first array only
sklearn_shuffle_X_only(X, y, perm) ==
    [X |-> [i \in 1..Len(X) |-> X[perm[i]]], y |-> y]

\* sklearn.utils.shuffle(X, y): both arrays indexed by one drawn permutation
sklearn_shuffle(X, y, perm) ==
    [X |-> [i \in 1..Len(X) |-> X[perm[i]]],
     y |-> [i \in 1..Len(y) |-> y[perm[i]]]]

LoadTrain(from) ==
    /\ pc = from
    /\ UNCHANGED trainVars
    /\ LET r == load_split(fs, train_dir)
       IN  IF r.raised
           THEN pc' = "raised" /\ UNCHANGED <<X_train, y_train>>
           ELSE pc' = "train_loaded" /\ X_train' = r.X /\ y_train' = r.y
    /\ UNCHANGED modelVars
    /\ UNCHANGED <<fs, files, steps, X_val, y_val, train_generator, val_generator,
                   samples_per_epoch, nb_val_samples>>

ShuffleTrain ==
    /\ pc = "train_loaded"
    /\ UNCHANGED trainVars
    /\ \E perm \in ShufflePerms(Len(X_train)) :
          LET r == sklearn_shuffle(X_train, y_train, perm)
          IN  X_train' = r.X /\ y_train' = r.y
    /\ pc' = "train_shuffled"
    /\ UNCHANGED modelVars
    /\ UNCHANGED <<fs, files, steps, X_val, y_val, train_generator, val_generator,
                   samples_per_epoch, nb_val_samples>>

LoadVal ==
    /\ pc = "train_shuffled"
    /\ UNCHANGED trainVars
    /\ LET r == load_split(fs, val_dir)
       IN  IF r.raised
           THEN pc' = "raised" /\ UNCHANGED <<X_val, y_val>>
           ELSE pc' = "val_loaded" /\ X_val' = r.X /\ y_val' = r.y
    /\ UNCHANGED modelVars
    /\ UNCHANGED <<fs, files, steps, X_train, y_train, train_generator, val_generator,
                   samples_per_epoch, nb_val_samples>>

ShuffleVal ==
    /\ pc = "val_loaded"
    /\ UNCHANGED trainVars
    /\ \E perm \in ShufflePerms(Len(X_val)) :
          LET r == sklearn_shuffle(X_val, y_val, perm)
          IN  X_val' = r.X /\ y_val' = r.y
    /\ pc' = "val_shuffled"
    /\ UNCHANGED modelVars
    /\ UNCHANGED <<fs, files, steps, X_train, y_train, train_generator, val_generator,
                   samples_per_epoch, nb_val_samples>>

batch_size == 16

\* Lines 55-58: the arrays are handed to the two generators
Flow ==
    /\ pc = "val_shuffled"
    /\ UNCHANGED trainVars
    /\ train_generator' = [X |-> X_train, y |-> y_train, batch_size |-> batch_size]
    /\ val_generator' = [X |-> X_val, y |-> y_val, batch_size |-> batch_size]
    /\ pc' = "returned"
    /\ UNCHANGED modelVars
    /\ UNCHANGED <<fs, files, steps, X_train, y_train, X_val, y_val,
                   samples_per_epoch, nb_val_samples>>

----------------------------------------------------------------------------
(* Specification of data assembly: create_data_generators on any tree below *)
(* train_dir and val_dir, each label directory present or missing           *)

LabelDirs == {neg_dir(train_dir), pos_dir(train_dir), neg_dir(val_dir), pos_dir(val_dir)}
SplitDirs == {train_dir, val_dir}

\* The entries the environment puts below train_dir and val_dir
DataNames == { <<"a", ".", "n", "p", "y">>, <<"n", "p", "y">> }
DataKinds == {"file", "dir"}

DirTree(ds) == [p \in ds |-> "dir"]

InitData ==
    /\ \E ds \in SUBSET LabelDirs : fs = DirTree(SplitDirs \cup ds)
    /\ pc = "env"
    /\ files = NoResult
    /\ InitDataVars
    /\ steps = <<>>
    /\ InitModelVars
    /\ InitTrainVars /\ weights_file = NoWeights

NextData ==
    \/ AddEntry(SplitDirs \cup LabelDirs, DataNames, DataKinds)
    \/ LoadTrain("env")
    \/ ShuffleTrain
    \/ LoadVal
    \/ ShuffleVal
    \/ Flow
SpecData == InitData /\ [][NextData]_vars

TrainLoaded == pc \in {"train_loaded", "train_shuffled", "val_loaded", "val_shuffled", "returned"}
ValLoaded == pc \in {"val_loaded", "val_shuffled", "returned"}

CountOf(y, b) == Cardinality({i \in DOMAIN y : y[i] = b})

\* Every row's label is that of the label directory its file lies below, and
\* the label counts are the numbers of volume files below 0 and below 1.
LabelsMatch(X, y, dir) ==
    /\ Len(X) = Len(y)
    /\ \A i \in DOMAIN X :
          /\ IsUnder(X[i].volume_of, neg_dir(dir)) => y[i] = FALSE
          /\ IsUnder(X[i].volume_of, pos_dir(dir)) => y[i] = TRUE
          /\ is_file(fs, X[i].volume_of)
    /\ CountOf(y, FALSE) = Cardinality(VolumeFilesUnder(fs, neg_dir(dir)))
    /\ CountOf(y, TRUE) = Cardinality(VolumeFilesUnder(fs, pos_dir(dir)))

\* C1: in create_data_generators, for the train and the val split and every
\* file tree, each loaded volume's label matches its source subdirectory
\* (False below 0, True below 1), the label counts equal the file counts of
\* the two subdirectories, and the same holds of the shuffled arrays handed
\* to the generators.
C1_LabelsMatchDirectories ==
    /\ TrainLoaded => LabelsMatch(X_train, y_train, train_dir)
    /\ ValLoaded => LabelsMatch(X_val, y_val, val_dir)
    /\ pc = "returned" =>
          /\ LabelsMatch(train_generator.X, train_generator.y, train_dir)
          /\ LabelsMatch(val_generator.X, val_generator.y, val_dir)

\* Both labels in the train split, shuffled out of their load order, and a
\* labelled validation volume, all handed to the generators.
C1_Witness ==
    /\ pc = "returned"
    /\ train_generator.y = <<TRUE, FALSE>>
    /\ Len(val_generator.X) >= 1

Pairs(X, y) == [i \in DOMAIN X |-> <<X[i], y[i]>>]
Occurrences(s, e) == Cardinality({i \in DOMAIN s : s[i] = e})

\* Xs, ys is X, y indexed by one permutation, with the same pairs as often
SamePermutation(X, y, Xs, ys) ==
    /\ Len(Xs) = Len(X) /\ Len(ys) = Len(y)
    /\ \E perm \in Permutations(DOMAIN X) :
          \A i \in DOMAIN X : Xs[i] = X[perm[i]] /\ ys[i] = y[perm[i]]
    /\ \A e \in Range(Pairs(X, y)) \cup Range(Pairs(Xs, ys)) :
          Occurrences(Pairs(Xs, ys), e) = Occurrences(Pairs(X, y), e)

\* C2: each shuffle applies one and the same permutation to X and to y, so
\* the shuffled label[i] belongs to the volume shuffled X[i], and the
\* multiset of (volume, label) pairs is unchanged.
C2_ShufflePreservesPairing ==
    [][ /\ (pc = "train_loaded" /\ pc' = "train_shuffled")
            => SamePermutation(X_train, y_train, X_train', y_train')
        /\ (pc = "val_loaded" /\ pc' = "val_shuffled")
            => SamePermutation(X_val, y_val, X_val', y_val') ]_vars

\* Both shuffles have run, the train one having moved a positive volume in
\* front of a negative one.
C2_Witness ==
    /\ pc = "val_shuffled"
    /\ y_train = <<TRUE, FALSE>>
    /\ Len(X_val) >= 1

----------------------------------------------------------------------------
(* The entry point, lines 127-167 *)

\* The names bound at module level when line 128 is reached: the imports of
\* lines 1-11 and the five functions.
ModuleGlobals ==
    {"os", "argparse", "np", "sklearn_shuffle", "tf", "Model", "Flatten", "Dense",
     "Input", "merge", "Convolution3D", "MaxPooling3D", "BatchNormalization",
     "Activation", "AveragePooling3D", "ModelCheckpoint", "EarlyStopping",
     "ImageDataGenerator", "get_data_files", "create_data_generators",
     "res_block", "define_model", "train"}

SETTINGS_FILE_PATH ==
    <<".", ".", "/", ".", ".", "/", "S", "E", "T", "T", "I", "N", "G", "S",
      ".", "j", "s", "o", "n">>

\* The volumes the environment puts into d: the next free volume name
VolumesIn(f, d) == {k \in 1..Len(NameOrder) : exists(f, path_join(d, volume_name(k)))}

AddVolume(dir, max) ==
    /\ pc = "env"
    /\ UNCHANGED trainVars
    /\ Cardinality(VolumeFilesUnder(fs, dir)) < max
    /\ \E d \in {dir, neg_dir(dir), pos_dir(dir)} :
          fs' = Extend(fs, path_join(d, volume_name(Cardinality(VolumesIn(fs, d)) + 1)), "file")
    /\ UNCHANGED <<pc, files, steps>>
    /\ UNCHANGED dataVars
    /\ UNCHANGED modelVars

\* Lines 128-131: open(SETTINGS_FILE_PATH, 'r')
MainOpenSettings ==
    /\ pc = "env"
    /\ UNCHANGED trainVars
    /\ IF is_file(fs, SETTINGS_FILE_PATH)
       THEN pc' = "settings_open" /\ steps' = steps
       ELSE pc' = "raised" /\ steps' = steps
    /\ UNCHANGED <<fs, files>>
    /\ UNCHANGED dataVars
    /\ UNCHANGED modelVars

\* Line 132: SETTINGS = json.load(f), which looks the name json up
MainJsonLoad ==
    /\ pc = "settings_open"
    /\ UNCHANGED trainVars
    /\ IF "json" \in ModuleGlobals
       THEN pc' = "settings_read" /\ steps' = Append(steps, "read_settings")
       ELSE pc' = "NameError" /\ steps' = steps
    /\ UNCHANGED <<fs, files>>
    /\ UNCHANGED dataVars
    /\ UNCHANGED modelVars

weights_dir == <<"w", "e", "i", "g", "h", "t", "s">>

\* Lines 134-141: the paths, and os.makedirs(..., exist_ok=True)
MakeDirs ==
    /\ pc = "env"
    /\ UNCHANGED trainVars
    /\ IF exists(fs, weights_dir) /\ ~is_dir(fs, weights_dir)
       THEN pc' = "raised" /\ UNCHANGED <<fs, steps>>
       ELSE /\ fs' = Extend(fs, weights_dir, "dir")
            /\ steps' = Append(steps, "makedirs")
            /\ pc' = "dirs_made"
    /\ UNCHANGED files
    /\ UNCHANGED dataVars
    /\ UNCHANGED modelVars

\* Lines 144-148: the training config
CountSamples(from) ==
    /\ pc = from
    /\ UNCHANGED trainVars
    /\ LET tr == list_data_files(fs, train_dir)
           va == list_data_files(fs, val_dir)
       IN  IF tr.raised \/ va.raised
           THEN pc' = "raised" /\ UNCHANGED <<samples_per_epoch, nb_val_samples, steps>>
           ELSE /\ samples_per_epoch' = batch_size * (Len(tr.paths) \div batch_size)
                /\ nb_val_samples' = batch_size * (Len(va.paths) \div batch_size)
                /\ steps' = Append(steps, "count_samples")
                /\ pc' = "counted"
    /\ UNCHANGED modelVars
    /\ UNCHANGED <<fs, files, X_train, y_train, X_val, y_val,
                   train_generator, val_generator>>

\* Lines 150-163: the printed summary lists the four label directories
PrintConfig ==
    /\ pc = "counted"
    /\ UNCHANGED trainVars
    /\ IF \E d \in LabelDirs : list_data_files(fs, d).raised
       THEN pc' = "raised"
       ELSE pc' = "printed"
    /\ UNCHANGED <<fs, files, steps>>
    /\ UNCHANGED dataVars
    /\ UNCHANGED modelVars

ScriptTree == Extend(DirTree(SplitDirs \cup LabelDirs), SETTINGS_FILE_PATH, "file")

InitScript ==
    /\ fs = ScriptTree
    /\ pc = "env"
    /\ files = NoResult
    /\ InitDataVars
    /\ steps = <<>>
    /\ InitModelVars
    /\ InitTrainVars /\ weights_file = NoWeights

AddVolumes == AddVolume(train_dir, MaxTrainVolumes) \/ AddVolume(val_dir, MaxValVolumes)

\* The script as it runs from line 127
NextMain == AddVolumes \/ MainOpenSettings \/ MainJsonLoad
SpecMain == InitScript /\ [][NextMain]_vars

\* The statements from line 134 on, as they run once the settings are read
NextEntry ==
    \/ AddVolumes
    \/ MakeDirs
    \/ CountSamples("dirs_made")
    \/ PrintConfig
    \/ LoadTrain("printed")
    \/ ShuffleTrain
    \/ LoadVal
    \/ ShuffleVal
    \/ Flow
SpecEntry == InitScript /\ [][NextEntry]_vars

EntryPointSteps ==
    <<"read_settings", "makedirs", "count_samples", "create_data_generators",
      "define_model", "train">>

\* C5: run as a script with a well-formed settings file and data layout, the
\* entry point performs read settings, create the weights directory, count
\* samples, build the generators, define the model, start training, in this
\* order and each once, and reaches the training step without an error.
C5_EntryPointRunsToTraining ==
    /\ pc \notin {"NameError", "raised"}
    /\ steps = SubSeq(EntryPointSteps, 1, Len(steps))

FitsLoaded(n_samples, X) ==
    /\ n_samples = batch_size * (Len(X) \div batch_size)
    /\ n_samples <= Len(X)
    /\ Len(X) - n_samples < batch_size

----------------------------------------------------------------------------
(* res_block and define_model: the shapes of the tensors, (d1, d2, d3, c) *)

image_shape == <<32, 32, 64, 1>>

\* Resolution of the fixed-point numbers of the output unit, the range of
\* its input, and the largest exponential represented.
Scale == 100
MaxLogit == 50
ExpCap == 10000000

CeilDiv(a, b) == (a + b - 1) \div b

\* Convolution3D(nb_filter, k, k, k, subsample=(s, s, s), border_mode='same')
Convolution3D(shape, nb_filter, s) ==
    <<CeilDiv(shape[1], s), CeilDiv(shape[2], s), CeilDiv(shape[3], s), nb_filter>>

\* AveragePooling3D(pool_size): strides = pool_size, border_mode='valid'
AveragePooling3D(shape, pool_size) ==
    <<(shape[1] - pool_size[1]) \div pool_size[1] + 1,
      (shape[2] - pool_size[2]) \div pool_size[2] + 1,
      (shape[3] - pool_size[3]) \div pool_size[3] + 1,
      shape[4]>>

RECURSIVE Product(_)
Product(s) == IF s = <<>> THEN 1 ELSE Head(s) * Product(Tail(s))

Flatten(shape) == <<Product(shape)>>
Dense(shape, output_dim) == <<output_dim>>

\* The layer calls, with the arguments the code gives them
Call(op, nb_filters, block, subsample_factor, pool_size, activation) ==
    [op |-> op, nb_filters |-> nb_filters, block |-> block,
     subsample_factor |-> subsample_factor, pool_size |-> pool_size,
     activation |-> activation]

ResBlockCall(nb_filters, block, subsample_factor) ==
    Call("res_block", nb_filters, block, subsample_factor, <<>>, "relu")

\* a res_block whose shortcut is always the input tensor
res_block_identity_shortcut(input_tensor, nb_filters, subsample_factor) ==
    LET r1 == Convolution3D(input_tensor, nb_filters, subsample_factor)
        r2 == Convolution3D(r1, nb_filters, 1)
    IN  [residual |-> r2, shortcut |-> input_tensor, shortcut_kind |-> "identity",
         shortcut_stride |-> 1]

\* res_block, lines 61-77: the two tensors handed to merge(mode='sum')
res_block(input_tensor, nb_filters, subsample_factor) ==
    LET r1 == Convolution3D(input_tensor, nb_filters, subsample_factor)
        r2 == Convolution3D(r1, nb_filters, 1)
    IN  IF subsample_factor > 1
        THEN [residual |-> r2,
              shortcut |-> Convolution3D(input_tensor, nb_filters, subsample_factor),
              shortcut_kind |-> "Convolution3D 1x1x1",
              shortcut_stride |-> subsample_factor]
        ELSE [residual |-> r2, shortcut |-> input_tensor,
              shortcut_kind |-> "identity", shortcut_stride |-> 1]

\* Line 83
stem == <<Call("Convolution3D", 16, -1, 1, <<>>, "linear")>>

\* a third stage whose first block does not downsample
stage_2_unstrided == <<ResBlockCall(64, 2, 1), ResBlockCall(64, 2, 1), ResBlockCall(64, 2, 1)>>

\* Lines 85-87, 89-91, 93-95, 97-99
stage_0 == <<ResBlockCall(16, 0, 1), ResBlockCall(16, 0, 1), ResBlockCall(16, 0, 1)>>
stage_1 == <<ResBlockCall(32, 1, 2), ResBlockCall(32, 1, 1), ResBlockCall(32, 1, 1)>>
stage_2 == <<ResBlockCall(64, 2, 2), ResBlockCall(64, 2, 1), ResBlockCall(64, 2, 1)>>
stage_3 == <<ResBlockCall(128, 3, 2), ResBlockCall(128, 3, 1), ResBlockCall(128, 3, 1)>>

\* an output unit without the squashing activation
predictions_linear == <<Call("Dense", 1, -1, 1, <<>>, "linear")>>

\* Line 106
predictions == <<Call("Dense", 1, -1, 1, <<>>, "sigmoid")>>

\* Lines 101-105
head ==
    <<Call("BatchNormalization", 0, -1, 1, <<>>, "linear"),
      Call("Activation", 0, -1, 1, <<>>, "relu"),
      Call("AveragePooling3D", 0, -1, 1, <<4, 4, 8>>, "linear"),
      Call("Flatten", 0, -1, 1, <<>>, "linear")>>

\* The statements of define_model, lines 83-106, in order
define_model_calls ==
    stem \o stage_0 \o stage_1 \o stage_2 \o stage_3 \o head \o predictions

NoBlock == [residual |-> <<>>, shortcut |-> <<>>, shortcut_kind |-> "", shortcut_stride |-> 0]

\* The tensor a call returns for input tensor t
Output(c, t) ==
    CASE c.op = "Convolution3D" -> Convolution3D(t, c.nb_filters, c.subsample_factor)
      [] c.op = "res_block" -> res_block(t, c.nb_filters, c.subsample_factor).residual
      [] c.op = "AveragePooling3D" -> AveragePooling3D(t, c.pool_size)
      [] c.op = "Flatten" -> Flatten(t)
      [] c.op = "Dense" -> Dense(t, c.nb_filters)
      [] OTHER -> t

\* Keras raises when merge sums tensors of different shape, and when a
\* pooling window does not fit its input
Raises(c, t) ==
    CASE c.op = "res_block" ->
            LET b == res_block(t, c.nb_filters, c.subsample_factor)
            IN  b.residual # b.shortcut
      [] c.op = "AveragePooling3D" -> \E i \in 1..3 : t[i] < c.pool_size[i]
      [] OTHER -> FALSE

\* Line 81: img_input = Input(shape=image_shape)
DefineModelInput ==
    /\ pc = "start"
    /\ UNCHANGED trainVars
    /\ x' = image_shape
    /\ ip' = 1
    /\ pc' = "define_model"
    /\ UNCHANGED <<fs, files, steps, graph, logit, prediction>>
    /\ UNCHANGED dataVars

\* One statement x = layer(...)(x) of lines 83-106
DefineModelStep ==
    /\ pc = "define_model"
    /\ UNCHANGED trainVars
    /\ ip <= Len(define_model_calls)
    /\ LET c == define_model_calls[ip]
           b == IF c.op = "res_block"
                THEN res_block(x, c.nb_filters, c.subsample_factor)
                ELSE NoBlock
       IN  /\ graph' = Append(graph, [call |-> c, input |-> x, output |-> Output(c, x),
                                      block |-> b])
           /\ IF Raises(c, x)
              THEN pc' = "raised" /\ UNCHANGED <<x, ip>>
              ELSE pc' = pc /\ x' = Output(c, x) /\ ip' = ip + 1
    /\ UNCHANGED <<fs, files, steps, logit, prediction>>
    /\ UNCHANGED dataVars

\* Lines 108-111: Model(img_input, x), compile, return
DefineModelReturn ==
    /\ pc = "define_model"
    /\ UNCHANGED trainVars
    /\ ip > Len(define_model_calls)
    /\ pc' = "compiled"
    /\ UNCHANGED <<fs, files, steps, ip, x, graph, logit, prediction>>
    /\ UNCHANGED dataVars

Min(a, b) == IF a < b THEN a ELSE b

\* exp(z) in units of 1/Scale, saturating at ExpCap and underflowing to 0
\* (both are reached before |z| = 16)
RECURSIVE exp_fixed(_)
exp_fixed(z) ==
    IF z = 0 THEN Scale
    ELSE IF z > 16 THEN ExpCap
    ELSE IF z < -16 THEN 0
    ELSE IF z > 0 THEN LET e == exp_fixed(z - 1) IN Min(ExpCap, (e * 27) \div 10)
    ELSE LET e == exp_fixed(z + 1) IN (e * 10) \div 27

\* The activations, on a pre-activation z and in units of 1/Scale
activation(name, z) ==
    CASE name = "sigmoid" -> (Scale * Scale) \div (Scale + exp_fixed(-z))
      [] name = "relu" -> IF z > 0 THEN z * Scale ELSE 0
      [] OTHER -> z * Scale

\* The compiled model applied to one volume: whatever the weights, the output
\* layer's units receive some pre-activation
Predict ==
    /\ pc = "compiled"
    /\ UNCHANGED trainVars
    /\ \E z \in -MaxLogit..MaxLogit :
          /\ logit' = z
          /\ prediction' = [i \in 1..x[1] |->
                               activation(graph[Len(graph)].call.activation, z)]
    /\ pc' = "predicted"
    /\ UNCHANGED <<fs, files, steps, ip, x, graph>>
    /\ UNCHANGED dataVars

InitModel ==
    /\ fs = NoFs
    /\ pc = "start"
    /\ files = NoResult
    /\ InitDataVars
    /\ steps = <<>>
    /\ InitModelVars
    /\ InitTrainVars /\ weights_file = NoWeights

NextModel == DefineModelInput \/ DefineModelStep \/ DefineModelReturn \/ Predict
SpecModel == InitModel /\ [][NextModel]_vars

Compiled == pc \in {"compiled", "predicted"}

LayersOf(op) == {i \in DOMAIN graph : graph[i].call.op = op}
ResBlocks == LayersOf("res_block")
StageBlocks(b) == {i \in ResBlocks : graph[i].call.block = b}
Strided(b) == {i \in StageBlocks(b) : graph[i].call.subsample_factor > 1}

\* C6: for an input volume of shape (32, 32, 64, 1) the model outputs exactly
\* one scalar, which lies in [0, 1]: the tensor reaching the average pooling
\* has the spatial size of the pool, (4, 4, 8), so that pooling and
\* flattening leave 128 values for the single sigmoid unit.
C6_OneScalarInUnitInterval ==
    /\ pc # "raised"
    /\ Compiled =>
          /\ graph[1].input = <<32, 32, 64, 1>>
          /\ \A i \in LayersOf("AveragePooling3D") :
                /\ SubSeq(graph[i].input, 1, 3) = graph[i].call.pool_size
                /\ graph[i].call.pool_size = <<4, 4, 8>>
                /\ graph[i].output = <<1, 1, 1, 128>>
          /\ Cardinality(LayersOf("AveragePooling3D")) = 1
          /\ \A i \in LayersOf("Flatten") : graph[i].output = <<128>>
          /\ \A i \in LayersOf("Dense") : graph[i].input = <<128>>
          /\ x = <<1>>
    /\ pc = "predicted" =>
          /\ Len(prediction) = 1
          /\ prediction[1] >= 0 /\ prediction[1] <= Scale

\* A prediction strictly inside the interval, from a positive pre-activation
C6_Witness ==
    /\ pc = "predicted"
    /\ logit > 0
    /\ prediction[1] > Scale \div 2 /\ prediction[1] < Scale

\* C9: in every res_block call of define_model the shortcut is the identity
\* when subsample_factor = 1 and a strided 1x1x1 projection convolution when
\* subsample_factor > 1, and the two tensors summed have the same spatial
\* shape and the same number of channels.
C9_ShortcutMatchesResidual ==
    /\ \A i \in ResBlocks :
          LET c == graph[i].call
              b == graph[i].block
          IN  /\ c.subsample_factor = 1 =>
                    b.shortcut_kind = "identity" /\ b.shortcut = graph[i].input
              /\ c.subsample_factor > 1 =>
                    /\ b.shortcut_kind = "Convolution3D 1x1x1"
                    /\ b.shortcut_stride = c.subsample_factor
                    /\ \E d \in 1..3 : b.shortcut[d] < graph[i].input[d]
              /\ b.shortcut = b.residual
              /\ b.shortcut_kind = "identity" => graph[i].input[4] = c.nb_filters
    /\ Compiled => Cardinality(ResBlocks) = 12

\* The model is built, with blocks of both kinds of shortcut
C9_Witness ==
    /\ Compiled
    /\ \E i, j \in ResBlocks :
          /\ graph[i].block.shortcut_kind = "identity"
          /\ graph[j].block.shortcut_kind = "Convolution3D 1x1x1"

Ops == [i \in DOMAIN graph |-> graph[i].call.op]

\* An initial convolution, four stages of three blocks of widths 16, 32, 64,
\* 128, then normalization, activation, pooling, flattening and one sigmoid
\* unit
StagesAndHead ==
    /\ Ops = <<"Convolution3D">> \o [i \in 1..12 |-> "res_block"]
             \o <<"BatchNormalization", "Activation", "AveragePooling3D",
                  "Flatten", "Dense">>
    /\ \A b \in 0..3 :
          /\ StageBlocks(b) = {3 * b + 2, 3 * b + 3, 3 * b + 4}
          /\ \A i \in StageBlocks(b) : graph[i].call.nb_filters = 16 * (2 ^ b)
    /\ graph[Len(graph)].call.nb_filters = 1
    /\ graph[Len(graph)].call.activation = "sigmoid"

\* C7 as stated: an initial convolution, four stages of residual blocks of
\* widths 16, 32, 64, 128 with exactly one strided block in each of the four
\* stages, then normalization, activation, pooling, flattening and a single
\* sigmoid unit.
C7_OneStridedBlockPerStage ==
    Compiled =>
        /\ StagesAndHead
        /\ \A b \in 0..3 : Cardinality(Strided(b)) = 1

\* C7 as amended: the first stage has no strided block; each of the three
\* later stages has exactly one, its first block.
C7_OneStridedBlockPerLaterStage ==
    /\ \A i \in ResBlocks :
          /\ graph[i].call.block = (i - 2) \div 3
          /\ graph[i].call.subsample_factor > 1 <=> i \in {5, 8, 11}
    /\ Compiled =>
          /\ StagesAndHead
          /\ Strided(0) = {}
          /\ \A b \in 1..3 : Strided(b) = {3 * b + 2}

\* The built model: three strided blocks among the twelve
C7_Witness ==
    /\ Compiled
    /\ Cardinality(ResBlocks) = 12
    /\ Cardinality({i \in ResBlocks : graph[i].call.subsample_factor > 1}) = 3

----------------------------------------------------------------------------
(* train: fit_generator with ModelCheckpoint and EarlyStopping *)

nb_epoch == 1000
patience == 10

\* The largest validation loss the environment reports.
MaxLoss == 3

Losses == {Num(v) : v \in 0..MaxLoss} \cup {NaN}

\* np.less(a, b) on a validation loss a and a best value b
np_less(a, b) ==
    CASE a.kind = "nan" \/ b.kind = "nan" -> FALSE
      [] a.kind = "inf" -> FALSE
      [] b.kind = "inf" -> TRUE
      [] OTHER -> a.v < b.v

\* a checkpoint callback that saves after every epoch
ModelCheckpoint_save_always(e, current, best, file) ==
    [best |-> IF np_less(current, best) THEN current ELSE best,
     file |-> EpochWeights(e)]

\* ModelCheckpoint(filepath, save_best_only=True).on_epoch_end: monitor
\* val_loss, mode min
ModelCheckpoint_on_epoch_end(e, current, best, file) ==
    IF np_less(current, best)
    THEN [best |-> current, file |-> EpochWeights(e)]
    ELSE [best |-> best, file |-> file]

\* EarlyStopping(monitor='val_loss', patience=10).on_epoch_end, as the
\* library release this script's calls belong to has it: wait is tested
\* before it is incremented
EarlyStopping_on_epoch_end(current, best, wait, stop) ==
    IF np_less(current, best)
    THEN [best |-> current, wait |-> 0, stop |-> stop]
    ELSE [best |-> best, wait |-> wait + 1,
          stop |-> IF wait >= patience THEN TRUE ELSE stop]

\* The history of the run: the first epoch with the lowest numeric loss
NewLowest(low, e, loss) ==
    IF loss.kind = "num" /\ (~low.found \/ loss.v < low.loss)
    THEN [found |-> TRUE, loss |-> loss.v, epoch |-> e]
    ELSE low

\* Lines 115-120: the callbacks are created and on_train_begin has run
TrainBegin ==
    /\ pc = "start"
    /\ epoch' = 0
    /\ checkpointer_best' = Inf
    /\ early_best' = Inf /\ early_wait' = 0
    /\ stop_training' = FALSE
    /\ pc' = "fit"
    /\ UNCHANGED <<weights_file, lowest, stale>>
    /\ UNCHANGED <<fs, files, steps>>
    /\ UNCHANGED dataVars
    /\ UNCHANGED modelVars

\* One iteration of fit_generator's loop: the epoch is trained and validated,
\* the callbacks run in the order of line 121, the loop tests stop_training
\* and epoch < nb_epoch
Epoch ==
    /\ pc = "fit"
    /\ epoch < nb_epoch
    /\ \E val_loss \in Losses :
          LET c == ModelCheckpoint_on_epoch_end(epoch, val_loss, checkpointer_best,
                                                weights_file)
              s == EarlyStopping_on_epoch_end(val_loss, early_best, early_wait,
                                              stop_training)
          IN  /\ checkpointer_best' = c.best
              /\ weights_file' = c.file
              /\ early_best' = s.best
              /\ early_wait' = s.wait
              /\ stop_training' = s.stop
              /\ lowest' = NewLowest(lowest, epoch, val_loss)
              /\ stale' = IF NewLowest(lowest, epoch, val_loss) = lowest
                          THEN stale + 1 ELSE 0
              /\ epoch' = epoch + 1
              /\ pc' = IF s.stop \/ epoch + 1 >= nb_epoch THEN "trained" ELSE "fit"
    /\ UNCHANGED <<fs, files, steps>>
    /\ UNCHANGED dataVars
    /\ UNCHANGED modelVars

InitTrain ==
    /\ fs = NoFs
    /\ pc = "start"
    /\ files = NoResult
    /\ InitDataVars
    /\ steps = <<>>
    /\ InitModelVars
    /\ InitTrainVars
    /\ weights_file \in {NoWeights, PreviousRunWeights}

NextTrain == TrainBegin \/ Epoch
SpecTrain == InitTrain /\ [][NextTrain]_vars

\* C3 as stated: after any sequence of epochs the checkpoint file exists iff
\* at least one epoch has completed, and it holds the weights of the epoch
\* with the lowest validation loss seen so far.
C3_FileIffEpochCompleted ==
    pc \in {"fit", "trained"} =>
        /\ weights_file.exists <=> epoch >= 1
        /\ epoch >= 1 => lowest.found /\ weights_file = EpochWeights(lowest.epoch)

\* C3 as amended: once an epoch has completed with a numeric validation loss
\* the file holds the weights of the first epoch that reached the lowest loss
\* so far; until then it is as it was before the run, absent or left by an
\* earlier run; an epoch whose loss is not strictly lower than the best so
\* far leaves the file unchanged.
C3_FileHoldsFirstLowestEpoch ==
    /\ lowest.found => weights_file = EpochWeights(lowest.epoch)
    /\ ~lowest.found => weights_file \in {NoWeights, PreviousRunWeights}
    /\ (stale > 0 /\ lowest.found) => weights_file.epoch < epoch - stale

\* Three epochs: the first is the best, the later two (one of them as good)
\* left its weights in the file
C3_Witness ==
    /\ epoch = 3
    /\ stale = 2
    /\ weights_file = EpochWeights(0)
    /\ checkpointer_best = Num(1)

====
